---- MODULE Spec2Model ----
(***************************************************************************)
(* Model of the audio mixing API (src/index.js, lines 1-332): the POST     *)
(* /mix handler with its helpers downloadFile, mixAudioFiles and cleanup.  *)
(*                                                                         *)
(* One action is one run-to-completion segment of the async handler: the   *)
(* code between two awaits, or one event-listener invocation.  The         *)
(* environment (remote servers, the file system, ffmpeg, the client        *)
(* connection, timers) chooses the outcome of every await and event.       *)
(*                                                                         *)
(* JavaScript strings are sequences of one-character strings.  JavaScript  *)
(* values are records tagged by the field t.  Numbers are counted in       *)
(* tenths (Num(15) is 1.5), array indices are 0-based as in the source.    *)
(***************************************************************************)
EXTENDS Integers, Sequences, FiniteSets, TLC

(***************************************************************************)
(* Bounds                                                                  *)
(***************************************************************************)
NumReq == 2
MaxStems == 2
MaxVolumes == 2
MaxUrlLen == 4

(***************************************************************************)
(* JavaScript values                                                       *)
(***************************************************************************)
Undefined == [t |-> "undefined"]
Null == [t |-> "null"]
Str(s) == [t |-> "string", s |-> s]
Num(n) == [t |-> "number", n |-> n]
Obj(u) == [t |-> "object", url |-> u]
Arr(l) == [t |-> "array", items |-> l]

\* typeof v === 'string'
IsString(v) == v.t = "string"

\* JavaScript truthiness, as used by "!stems", "stem && ..", "stem.url" and "||"
Truthy(v) ==
  CASE v.t = "undefined" -> FALSE
    [] v.t = "null" -> FALSE
    [] v.t = "string" -> v.s # <<>>
    [] v.t = "number" -> v.n # 0
    [] OTHER -> TRUE

\* stem && typeof stem === 'object': null is excluded by the truthiness test
IsObject(v) == Truthy(v) /\ v.t \in {"object", "array"}

\* stem.url of an object (undefined when the property is absent, as on arrays)
UrlOf(v) == IF v.t = "object" THEN v.url ELSE Undefined

\* a[index] for a 0-based index: undefined outside the array
Index(a, k) == IF k >= 0 /\ k < Len(a.items) THEN a.items[k + 1] ELSE Undefined

Range(s) == {s[k] : k \in 1..Len(s)}

(***************************************************************************)
(* String functions                                                        *)
(***************************************************************************)
Whitespace == {" "}

RECURSIVE TrimStart(_)
TrimStart(s) ==
  IF s # <<>> /\ Head(s) \in Whitespace THEN TrimStart(Tail(s)) ELSE s

RECURSIVE TrimEnd(_)
TrimEnd(s) ==
  IF s # <<>> /\ s[Len(s)] \in Whitespace
  THEN TrimEnd(SubSeq(s, 1, Len(s) - 1))
  ELSE s

\* trim that leaves the blanks at the end
TrimStartOnly(s) == TrimStart(s)

\* String.prototype.trim
Trim(s) == TrimEnd(TrimStart(s))

\* String.prototype.split(c) for a one-character separator
RECURSIVE Split(_, _)
Split(s, c) ==
  IF c \notin Range(s)
  THEN <<s>>
  ELSE LET k == CHOOSE j \in 1..Len(s) : s[j] = c /\ \A h \in 1..(j - 1) : s[h] # c
       IN <<SubSeq(s, 1, k - 1)>> \o Split(SubSeq(s, k + 1, Len(s)), c)

\* Array.prototype.pop: the last element
Pop(a) == a[Len(a)]

(***************************************************************************)
(* Helpers of the /mix handler                                             *)
(***************************************************************************)
\* let extension = 'wav'
DefaultExtension == <<"w", "a", "v">>

\* volumes[index] || 1.0, in tenths
DefaultVolume == 10

\* The extension extraction of the download loop
Extension(stemUrl) ==
  LET urlParts == Split(stemUrl, ".")
  IN IF Len(urlParts) > 1
     THEN LET lastPart == Pop(urlParts)
          IN IF Len(lastPart) > 0
             THEN Split(lastPart, "?")[1]
             ELSE DefaultExtension
     ELSE DefaultExtension

\* One token shared by every request
requestIdShared(r) == 1

\* uuidv4(): a token that no other request has
requestId(r) == r

\* path.join(tempDir, `${requestId}_stem_${i}.${extension}`)
StemPath(rid, k, ext) == [rid |-> rid, name |-> "stem", i |-> k, ext |-> ext]

\* path.join(tempDir, `${requestId}_mixed.mp3`)
OutputPath(rid) == [rid |-> rid, name |-> "mixed", ext |-> <<"m", "p", "3">>]

\* The extension holds a path separator: the file would lie in a directory
\* below tempDir that nobody created
InMissingDirectory(path) == path.name = "stem" /\ "/" \in Range(path.ext)

\* The validation loop, from index k on, with the stems accepted so far
RECURSIVE ValidateFrom(_, _, _, _)
ValidateFrom(stems, k, validated, rid) ==
  IF k >= Len(stems.items)
  THEN [ok |-> TRUE, validatedStems |-> validated]
  ELSE LET stem == Index(stems, k)
           isStr == IsString(stem)
           isObj == IsObject(stem) /\ Truthy(UrlOf(stem))
           stemUrl == IF isStr THEN stem ELSE UrlOf(stem)
       IN IF ~isStr /\ ~isObj
          THEN [ok |-> FALSE,
                json |-> [error |-> "Invalid stem", index |-> k,
                          received |-> stem, requestId |-> rid]]
          ELSE IF ~IsString(stemUrl) \/ Trim(stemUrl.s) = <<>>
          THEN [ok |-> FALSE,
                json |-> [error |-> "Invalid URL", index |-> k,
                          received |-> stemUrl, requestId |-> rid]]
          ELSE ValidateFrom(stems, k + 1, Append(validated, Trim(stemUrl.s)), rid)

\* Validation whose loop starts at the second element
ValidateFromSecond(b, rid) ==
  IF ~Truthy(b.stems) \/ b.stems.t # "array" \/ Len(b.stems.items) = 0
  THEN [ok |-> FALSE,
        json |-> [error |-> "stems array is required and must not be empty"]]
  ELSE ValidateFrom(b.stems, 1, <<>>, rid)

\* The handler from its entry to the end of the validation loop
Validate(b, rid) ==
  IF ~Truthy(b.stems) \/ b.stems.t # "array" \/ Len(b.stems.items) = 0
  THEN [ok |-> FALSE,
        json |-> [error |-> "stems array is required and must not be empty"]]
  ELSE ValidateFrom(b.stems, 0, <<>>, rid)

\* const volume = volumes[index] || 1.0
Volume(volumes, index) ==
  LET v == Index(volumes, index)
  IN IF Truthy(v) THEN v ELSE Num(DefaultVolume)

\* The ffmpeg invocation that mixAudioFiles builds and spawns
mixAudioFiles(inputs, outputFile, volumesArg) ==
  LET volumes == IF volumesArg = Undefined THEN Arr(<<>>) ELSE volumesArg
  IN [inputs |-> inputs,
      volume |-> [k \in 1..Len(inputs) |-> Volume(volumes, k - 1)],
      amix |-> [inputs |-> Len(inputs), duration |-> "longest"],
      codec |-> "mp3",
      bitrate |-> "192k",
      overwrite |-> TRUE,
      output |-> outputFile]

\* cleanup that lets the exception of unlinkSync end the loop
RECURSIVE cleanupStopsAtFailure(_, _, _)
cleanupStopsAtFailure(files, disk, failing) ==
  IF files = <<>>
  THEN disk
  ELSE LET file == Head(files)
       IN IF file \in disk /\ file \in failing
          THEN disk
          ELSE cleanupStopsAtFailure(Tail(files), disk \ {file}, failing)

\* cleanup that returns after the first file it deletes
RECURSIVE cleanupFirstOnly(_, _, _)
cleanupFirstOnly(files, disk, failing) ==
  IF files = <<>>
  THEN disk
  ELSE LET file == Head(files)
       IN IF file \in disk /\ file \notin failing
          THEN disk \ {file}
          ELSE cleanupFirstOnly(Tail(files), disk, failing)

\* cleanup(files) on the directory content disk, when unlinkSync throws for
\* the files in failing
RECURSIVE cleanup(_, _, _)
cleanup(files, disk, failing) ==
  IF files = <<>>
  THEN disk
  ELSE LET file == Head(files)
       IN cleanup(Tail(files),
                  IF file \in disk /\ file \notin failing
                  THEN disk \ {file}
                  ELSE disk,
                  failing)

(***************************************************************************)
(* State                                                                   *)
(***************************************************************************)
VARIABLES
  pc,             \* per request: where its handling stands
  body,           \* per request: req.body
  validatedStems, \* per request: the trimmed URLs accepted by validation
  i,              \* per request: index of the download loop
  filepath,       \* per request: destination of the download in flight
  inputFiles,     \* per request: paths handed to mixAudioFiles
  tempFiles,      \* per request: paths registered for cleanup
  args,           \* per request: the ffmpeg invocation, once spawned
  res,            \* per request: the HTTP response
  fs,             \* the files that exist in tempDir
  fetched,        \* per request: the URLs fetch was called with, in order
  unlinkFailed,   \* the files for which unlinkSync has thrown
  log             \* per request: what its handling has done, in order

vars == <<pc, body, validatedStems, i, filepath, inputFiles, tempFiles, args,
          res, fs, fetched, unlinkFailed, log>>

Requests == 1..NumReq

\* The response object as Express hands it to the handler
NewResponse ==
  [status |-> 200, contentType |-> Undefined, disposition |-> Undefined,
   body |-> Undefined, headersSent |-> FALSE, ended |-> FALSE,
   finished |-> FALSE, closed |-> FALSE]

\* res.status(code).json(obj): sends the whole response, a body small enough
\* to be handed to the connection at once
Json(response, code, obj) ==
  [response EXCEPT !.status = code, !.contentType = "application/json",
                   !.body = obj, !.headersSent = TRUE, !.ended = TRUE,
                   !.finished = TRUE]

Init ==
  /\ pc = [r \in Requests |-> "idle"]
  /\ body = [r \in Requests |-> Undefined]
  /\ validatedStems = [r \in Requests |-> <<>>]
  /\ i = [r \in Requests |-> 0]
  /\ filepath = [r \in Requests |-> Undefined]
  /\ inputFiles = [r \in Requests |-> <<>>]
  /\ tempFiles = [r \in Requests |-> <<>>]
  /\ args = [r \in Requests |-> Undefined]
  /\ res = [r \in Requests |-> NewResponse]
  /\ fs = {}
  /\ fetched = [r \in Requests |-> <<>>]
  /\ unlinkFailed = {}
  /\ log = [r \in Requests |-> <<>>]

(***************************************************************************)
(* The /mix handler                                                        *)
(***************************************************************************)
\* A catch block that answers 500 without cleanup(tempFiles)
CatchWithoutCleanup(r, message, disk, before) ==
  /\ fs' = disk
  /\ UNCHANGED unlinkFailed
  /\ log' = [log EXCEPT ![r] = Append(before, [e |-> "respond", status |-> 500])]
  /\ res' = [res EXCEPT ![r] =
               Json(@, 500, [error |-> "Failed to mix audio files",
                             details |-> message,
                             requestId |-> requestId(r)])]
  /\ pc' = [pc EXCEPT ![r] = "failed"]

\* The catch block: cleanup(tempFiles), then the 500 response.  disk is the
\* directory content, and before the log of the request, when the exception
\* is caught.
Catch(r, message, disk, before) ==
  \E failing \in SUBSET (Range(tempFiles[r]) \cap disk) :
    /\ fs' = cleanup(tempFiles[r], disk, failing)
    /\ unlinkFailed' = unlinkFailed \cup failing
    /\ log' = [log EXCEPT ![r] =
                 before \o <<[e |-> "cleanup", deleted |-> disk \ fs'],
                             [e |-> "respond", status |-> 500]>>]
    /\ res' = [res EXCEPT ![r] =
                 Json(@, 500, [error |-> "Failed to mix audio files",
                               details |-> message,
                               requestId |-> requestId(r)])]
    /\ pc' = [pc EXCEPT ![r] = "failed"]

\* The loop that starts ffmpeg without registering the output path
DownloadLoopOutputUnregistered(r, k, stemUrls, inputs, temps, volumes, before) ==
  IF k < Len(stemUrls)
  THEN /\ pc' = [pc EXCEPT ![r] = "fetch"]
       /\ log' = [log EXCEPT ![r] =
             Append(before, [e |-> "fetch", i |-> k, url |-> stemUrls[k + 1]])]
       /\ i' = [i EXCEPT ![r] = k]
       /\ filepath' = [filepath EXCEPT ![r] =
             StemPath(requestId(r), k, Extension(stemUrls[k + 1]))]
       /\ fetched' = [fetched EXCEPT ![r] = Append(@, stemUrls[k + 1])]
       /\ inputFiles' = [inputFiles EXCEPT ![r] = inputs]
       /\ tempFiles' = [tempFiles EXCEPT ![r] = temps]
       /\ UNCHANGED args
  ELSE /\ pc' = [pc EXCEPT ![r] = "mix"]
       /\ log' = [log EXCEPT ![r] =
             Append(before, [e |-> "spawn", inputs |-> inputs])]
       /\ i' = [i EXCEPT ![r] = k]
       /\ inputFiles' = [inputFiles EXCEPT ![r] = inputs]
       /\ tempFiles' = [tempFiles EXCEPT ![r] = temps]
       /\ args' = [args EXCEPT ![r] =
             mixAudioFiles(inputs, OutputPath(requestId(r)), volumes)]
       /\ UNCHANGED <<filepath, fetched>>

\* The loop that hands the files to ffmpeg as soon as one stem is downloaded
DownloadLoopMixesEarly(r, k, stemUrls, inputs, temps, volumes, before) ==
  IF k = 0
  THEN /\ pc' = [pc EXCEPT ![r] = "fetch"]
       /\ log' = [log EXCEPT ![r] =
             Append(before, [e |-> "fetch", i |-> k, url |-> stemUrls[k + 1]])]
       /\ i' = [i EXCEPT ![r] = k]
       /\ filepath' = [filepath EXCEPT ![r] =
             StemPath(requestId(r), k, Extension(stemUrls[k + 1]))]
       /\ fetched' = [fetched EXCEPT ![r] = Append(@, stemUrls[k + 1])]
       /\ inputFiles' = [inputFiles EXCEPT ![r] = inputs]
       /\ tempFiles' = [tempFiles EXCEPT ![r] = temps]
       /\ UNCHANGED args
  ELSE /\ pc' = [pc EXCEPT ![r] = "mix"]
       /\ log' = [log EXCEPT ![r] =
             before \o <<[e |-> "register", path |-> OutputPath(requestId(r))],
                         [e |-> "spawn", inputs |-> inputs]>>]
       /\ i' = [i EXCEPT ![r] = k]
       /\ inputFiles' = [inputFiles EXCEPT ![r] = inputs]
       /\ tempFiles' = [tempFiles EXCEPT ![r] =
             Append(temps, OutputPath(requestId(r)))]
       /\ args' = [args EXCEPT ![r] =
             mixAudioFiles(inputs, OutputPath(requestId(r)), volumes)]
       /\ UNCHANGED <<filepath, fetched>>

\* The download loop at index k, up to the next await: either the fetch of
\* stem k inside downloadFile, or after the last stem the ffmpeg process
\* spawned by mixAudioFiles
DownloadLoop(r, k, stemUrls, inputs, temps, volumes, before) ==
  IF k < Len(stemUrls)
  THEN /\ pc' = [pc EXCEPT ![r] = "fetch"]
       /\ log' = [log EXCEPT ![r] =
             Append(before, [e |-> "fetch", i |-> k, url |-> stemUrls[k + 1]])]
       /\ i' = [i EXCEPT ![r] = k]
       /\ filepath' = [filepath EXCEPT ![r] =
             StemPath(requestId(r), k, Extension(stemUrls[k + 1]))]
       /\ fetched' = [fetched EXCEPT ![r] = Append(@, stemUrls[k + 1])]
       /\ inputFiles' = [inputFiles EXCEPT ![r] = inputs]
       /\ tempFiles' = [tempFiles EXCEPT ![r] = temps]
       /\ UNCHANGED args
  ELSE /\ pc' = [pc EXCEPT ![r] = "mix"]
       /\ log' = [log EXCEPT ![r] =
             before \o <<[e |-> "register", path |-> OutputPath(requestId(r))],
                         [e |-> "spawn", inputs |-> inputs]>>]
       /\ i' = [i EXCEPT ![r] = k]
       /\ inputFiles' = [inputFiles EXCEPT ![r] = inputs]
       /\ tempFiles' = [tempFiles EXCEPT ![r] =
             Append(temps, OutputPath(requestId(r)))]
       /\ args' = [args EXCEPT ![r] =
             mixAudioFiles(inputs, OutputPath(requestId(r)), volumes)]
       /\ UNCHANGED <<filepath, fetched>>

\* A request arrives: validation, then the first fetch
PostMix(r, b) ==
  /\ pc[r] = "idle"
  /\ body' = [body EXCEPT ![r] = b]
  /\ LET v == Validate(b, requestId(r))
     IN IF v.ok
        THEN /\ validatedStems' = [validatedStems EXCEPT ![r] = v.validatedStems]
             /\ DownloadLoop(r, 0, v.validatedStems, <<>>, <<>>, b.volumes, <<>>)
             /\ UNCHANGED <<res, fs, unlinkFailed>>
        ELSE /\ res' = [res EXCEPT ![r] = Json(@, 400, v.json)]
             /\ pc' = [pc EXCEPT ![r] = "rejected"]
             /\ log' = [log EXCEPT ![r] = <<[e |-> "respond", status |-> 400]>>]
             /\ UNCHANGED <<validatedStems, i, filepath, inputFiles,
                            tempFiles, args, fs, fetched, unlinkFailed>>

FetchOutcomes == {"ok", "notOk", "rejected"}

\* FetchSettled that fetches a stem a second time when the first fetch failed
FetchSettledRetrying(r, o) ==
  /\ pc[r] = "fetch"
  /\ IF o = "ok"
     THEN /\ pc' = [pc EXCEPT ![r] = "buffer"]
          /\ log' = [log EXCEPT ![r] = Append(@, [e |-> "response", i |-> i[r]])]
          /\ UNCHANGED <<res, fs, unlinkFailed, fetched>>
     ELSE IF Len(fetched[r]) = i[r] + 1
          THEN /\ fetched' = [fetched EXCEPT ![r] =
                    Append(@, validatedStems[r][i[r] + 1])]
               /\ log' = [log EXCEPT ![r] =
                    Append(@, [e |-> "fetch", i |-> i[r],
                               url |-> validatedStems[r][i[r] + 1]])]
               /\ UNCHANGED <<pc, res, fs, unlinkFailed>>
          ELSE /\ Catch(r, IF o = "notOk" THEN "Failed to download"
                           ELSE "fetch failed",
                        fs, Append(log[r], [e |-> "throw", i |-> i[r]]))
               /\ UNCHANGED fetched
  /\ UNCHANGED <<body, validatedStems, i, filepath, inputFiles, tempFiles, args>>

\* await fetch(url) settles; on success downloadFile awaits the body
FetchSettled(r, o) ==
  /\ pc[r] = "fetch"
  /\ IF o = "ok"
     THEN /\ pc' = [pc EXCEPT ![r] = "buffer"]
          /\ log' = [log EXCEPT ![r] = Append(@, [e |-> "response", i |-> i[r]])]
          /\ UNCHANGED <<res, fs, unlinkFailed>>
     ELSE Catch(r, IF o = "notOk" THEN "Failed to download" ELSE "fetch failed",
                fs, Append(log[r], [e |-> "throw", i |-> i[r]]))
  /\ UNCHANGED <<body, validatedStems, i, filepath, inputFiles, tempFiles,
                 args, fetched>>

BufferOutcomes == {"rejected", "written", "writeError", "partial"}

\* await response.buffer() settles; on success writeFileSync(filepath), the
\* two pushes and the next round of the loop
BufferSettled(r, o) ==
  /\ pc[r] = "buffer"
  /\ o \in {"written", "partial"} => ~InMissingDirectory(filepath[r])
  /\ IF o = "written"
     THEN /\ fs' = fs \cup {filepath[r]}
          /\ DownloadLoop(r, i[r] + 1, validatedStems[r],
                          Append(inputFiles[r], filepath[r]),
                          Append(tempFiles[r], filepath[r]),
                          body[r].volumes,
                          Append(log[r], [e |-> "write", i |-> i[r],
                                          url |-> validatedStems[r][i[r] + 1],
                                          path |-> filepath[r]]))
          /\ UNCHANGED <<res, unlinkFailed>>
     ELSE /\ Catch(r, IF o = "rejected" THEN "body failed" ELSE "write failed",
                   IF o = "partial" THEN fs \cup {filepath[r]} ELSE fs,
                   Append(log[r], [e |-> "throw", i |-> i[r]]))
          /\ UNCHANGED <<i, filepath, inputFiles, tempFiles, args, fetched>>
  /\ UNCHANGED <<body, validatedStems>>

\* exit: the exit code of ffmpeg, or -1 when the process could not be spawned;
\* file: whether the output file exists afterwards
MixOutcomes ==
  {[exit |-> 0, file |-> TRUE], [exit |-> 0, file |-> FALSE],
   [exit |-> 1, file |-> TRUE], [exit |-> 1, file |-> FALSE],
   [exit |-> -1, file |-> FALSE]}

\* MixSettled without the check that the output file exists
MixSettledWithoutExistsCheck(r, o) ==
  /\ pc[r] = "mix"
  /\ LET disk == IF o.file THEN fs \cup {args[r].output} ELSE fs
     IN IF o.exit = 0
        THEN /\ fs' = disk
             /\ res' = [res EXCEPT ![r] =
                   [@ EXCEPT !.contentType = "audio/mpeg",
                             !.disposition = [attachment |-> TRUE,
                                              filename |-> [mixed |-> requestId(r)]],
                             !.body = [stream |-> OutputPath(requestId(r))]]]
             /\ pc' = [pc EXCEPT ![r] = "stream"]
             /\ log' = [log EXCEPT ![r] =
                   @ \o <<[e |-> "exit", exit |-> o.exit, file |-> o.file],
                          [e |-> "pipe"]>>]
             /\ UNCHANGED unlinkFailed
        ELSE Catch(r, IF o.exit = -1 THEN "spawn failed"
                      ELSE "ffmpeg process exited with code",
                   disk,
                   Append(log[r], [e |-> "exit", exit |-> o.exit, file |-> o.file]))
  /\ UNCHANGED <<body, validatedStems, i, filepath, inputFiles, tempFiles,
                 args, fetched>>

\* await mixAudioFiles(..) settles; on success the existence check, the
\* headers and fileStream.pipe(res)
MixSettled(r, o) ==
  /\ pc[r] = "mix"
  /\ LET disk == IF o.file THEN fs \cup {args[r].output} ELSE fs
     IN IF o.exit = 0 /\ OutputPath(requestId(r)) \in disk
        THEN /\ fs' = disk
             /\ res' = [res EXCEPT ![r] =
                   [@ EXCEPT !.contentType = "audio/mpeg",
                             !.disposition = [attachment |-> TRUE,
                                              filename |-> [mixed |-> requestId(r)]],
                             !.body = [stream |-> OutputPath(requestId(r))]]]
             /\ pc' = [pc EXCEPT ![r] = "stream"]
             /\ log' = [log EXCEPT ![r] =
                   @ \o <<[e |-> "exit", exit |-> o.exit, file |-> o.file],
                          [e |-> "pipe"]>>]
             /\ UNCHANGED unlinkFailed
        ELSE Catch(r, IF o.exit = 0 THEN "Mixed audio file was not created"
                      ELSE IF o.exit = -1 THEN "spawn failed"
                      ELSE "ffmpeg process exited with code",
                   disk,
                   Append(log[r], [e |-> "exit", exit |-> o.exit, file |-> o.file]))
  /\ UNCHANGED <<body, validatedStems, i, filepath, inputFiles, tempFiles,
                 args, fetched>>

\* The first chunk of the file reaches res: the headers go out
StreamData(r) ==
  /\ pc[r] = "stream"
  /\ ~res[r].headersSent
  /\ res' = [res EXCEPT ![r].headersSent = TRUE]
  /\ log' = [log EXCEPT ![r] = Append(@, [e |-> "data"])]
  /\ UNCHANGED <<pc, body, validatedStems, i, filepath, inputFiles, tempFiles,
                 args, fs, fetched, unlinkFailed>>

\* fileStream emits 'end': pipe ends res, the handler arms the cleanup timer
StreamEnd(r) ==
  /\ pc[r] = "stream"
  /\ res' = [res EXCEPT ![r].headersSent = TRUE, ![r].ended = TRUE]
  /\ pc' = [pc EXCEPT ![r] = "timer"]
  /\ log' = [log EXCEPT ![r] = Append(@, [e |-> "end"])]
  /\ UNCHANGED <<body, validatedStems, i, filepath, inputFiles, tempFiles,
                 args, fs, fetched, unlinkFailed>>

\* A cleanup timer armed when the pipe starts, not when fileStream has ended
TimerFiredFromPipe(r) ==
  /\ pc[r] \in {"stream", "timer"}
  /\ \E failing \in SUBSET (Range(tempFiles[r]) \cap fs) :
       /\ fs' = cleanup(tempFiles[r], fs, failing)
       /\ unlinkFailed' = unlinkFailed \cup failing
  /\ log' = [log EXCEPT ![r] = Append(@, [e |-> "cleanup", deleted |-> fs \ fs'])]
  /\ pc' = [pc EXCEPT ![r] = "cleaned"]
  /\ UNCHANGED <<body, validatedStems, i, filepath, inputFiles, tempFiles,
                 args, res, fetched>>

\* setTimeout(() => cleanup(tempFiles), 5000) fires
TimerFired(r) ==
  /\ pc[r] = "timer"
  /\ \E failing \in SUBSET (Range(tempFiles[r]) \cap fs) :
       /\ fs' = cleanup(tempFiles[r], fs, failing)
       /\ unlinkFailed' = unlinkFailed \cup failing
  /\ log' = [log EXCEPT ![r] = Append(@, [e |-> "cleanup", deleted |-> fs \ fs'])]
  /\ pc' = [pc EXCEPT ![r] = "cleaned"]
  /\ UNCHANGED <<body, validatedStems, i, filepath, inputFiles, tempFiles,
                 args, res, fetched>>

\* An 'error' listener that answers like the catch block of the handler
StreamErrorAnswers500(r) ==
  /\ pc[r] = "stream"
  /\ \E failing \in SUBSET (Range(tempFiles[r]) \cap fs) :
       /\ fs' = cleanup(tempFiles[r], fs, failing)
       /\ unlinkFailed' = unlinkFailed \cup failing
  /\ log' = [log EXCEPT ![r] =
        @ \o <<[e |-> "error"], [e |-> "cleanup", deleted |-> fs \ fs'],
               [e |-> "respond", status |-> 500]>>]
  /\ res' = [res EXCEPT ![r] =
               Json(@, 500, [error |-> "Failed to mix audio files",
                             details |-> "stream failed",
                             requestId |-> requestId(r)])]
  /\ pc' = [pc EXCEPT ![r] = "streamError"]
  /\ UNCHANGED <<body, validatedStems, i, filepath, inputFiles, tempFiles,
                 args, fetched>>

\* fileStream emits 'error': the listener runs cleanup(tempFiles); pipe
\* leaves res as it is
StreamError(r) ==
  /\ pc[r] = "stream"
  /\ \E failing \in SUBSET (Range(tempFiles[r]) \cap fs) :
       /\ fs' = cleanup(tempFiles[r], fs, failing)
       /\ unlinkFailed' = unlinkFailed \cup failing
  /\ log' = [log EXCEPT ![r] =
        @ \o <<[e |-> "error"], [e |-> "cleanup", deleted |-> fs \ fs']>>]
  /\ pc' = [pc EXCEPT ![r] = "streamError"]
  /\ UNCHANGED <<body, validatedStems, i, filepath, inputFiles, tempFiles,
                 args, res, fetched>>

\* The client closes the connection while the file is piped: pipe unpipes
\* res and pauses fileStream, which emits neither 'end' nor 'error'
ClientClosed(r) ==
  /\ pc[r] = "stream"
  /\ res' = [res EXCEPT ![r].closed = TRUE]
  /\ pc' = [pc EXCEPT ![r] = "unpiped"]
  /\ log' = [log EXCEPT ![r] = Append(@, [e |-> "close"])]
  /\ UNCHANGED <<body, validatedStems, i, filepath, inputFiles, tempFiles,
                 args, fs, fetched, unlinkFailed>>

\* The last byte of an ended response has been handed to the connection
\* (res emits 'finish'); no listener of the handler runs
ResFinished(r) ==
  /\ res[r].ended
  /\ ~res[r].finished
  /\ res' = [res EXCEPT ![r].finished = TRUE]
  /\ log' = [log EXCEPT ![r] = Append(@, [e |-> "finish"])]
  /\ UNCHANGED <<pc, body, validatedStems, i, filepath, inputFiles, tempFiles,
                 args, fs, fetched, unlinkFailed>>

\* Every step of the handling of request r, for request bodies drawn from B
Handle(r, B) ==
  \/ pc[r] = "idle" /\ \E b \in B : PostMix(r, b)
  \/ \E o \in FetchOutcomes : FetchSettled(r, o)
  \/ \E o \in BufferOutcomes : BufferSettled(r, o)
  \/ \E o \in MixOutcomes : MixSettled(r, o)
  \/ StreamData(r)
  \/ StreamEnd(r)
  \/ TimerFired(r)
  \/ StreamError(r)
  \/ ClientClosed(r)
  \/ ResFinished(r)

(***************************************************************************)
(* Request bodies                                                          *)
(***************************************************************************)
SeqsUpTo(S, n) == UNION {[1..m -> S] : m \in 0..n}

UrlA == <<"a", ".", "w">>
UrlB == <<" ", "b", ".", "m", " ">>

\* Elements of stems: good URLs as a string and as an object, and every kind
\* of element that validation has to turn down
StemValues ==
  {Str(UrlA), Obj(Str(UrlB)), Str(<<>>), Str(<<" ">>), Obj(Str(<<>>)),
   Obj(Str(<<" ">>)), Obj(Num(5)), Obj(Undefined), Arr(<<>>), Num(5), Null}

VolumeValues == {Num(0), Num(5), Num(15)}

Bodies ==
  [stems : {Undefined, Str(UrlA)} \cup {Arr(l) : l \in SeqsUpTo(StemValues, MaxStems)},
   volumes : {Undefined} \cup {Arr(l) : l \in SeqsUpTo(VolumeValues, MaxVolumes)}]

\* One request with any of the bodies
Next == Handle(1, Bodies)

Spec == Init /\ [][Next]_vars

\* One request with a single string stem, over every string up to MaxUrlLen
UrlChars == {"a", ".", "/", "?", " "}

UrlBodies ==
  [stems : {Arr(<<Str(u)>>) : u \in SeqsUpTo(UrlChars, MaxUrlLen)},
   volumes : {Undefined}]

NextUrl == Handle(1, UrlBodies)

SpecUrl == Init /\ [][NextUrl]_vars

\* Concurrent requests, all for the same URL
ConcurrentBodies ==
  [stems : {Arr(<<Str(UrlA)>>)},
   volumes : {Undefined}]

NextConcurrent == \E r \in Requests : Handle(r, ConcurrentBodies)

SpecConcurrent == Init /\ [][NextConcurrent]_vars

\* cleanup on its own: a list of scratch paths, some of them on disk, and
\* cleanup(files) called on it again and again
MaxFiles == 2
MaxCalls == 2

ScratchPaths ==
  {StemPath(requestId(1), 0, <<"w">>), StemPath(requestId(1), 1, <<"w">>),
   OutputPath(requestId(1))}

InitCleanup ==
  /\ pc = [r \in Requests |-> "idle"]
  /\ body = [r \in Requests |-> Undefined]
  /\ validatedStems = [r \in Requests |-> <<>>]
  /\ i = [r \in Requests |-> 0]
  /\ filepath = [r \in Requests |-> Undefined]
  /\ inputFiles = [r \in Requests |-> <<>>]
  /\ \E files \in SeqsUpTo(ScratchPaths, MaxFiles) :
       tempFiles = [r \in Requests |-> IF r = 1 THEN files ELSE <<>>]
  /\ args = [r \in Requests |-> Undefined]
  /\ res = [r \in Requests |-> NewResponse]
  /\ fs \in SUBSET ScratchPaths
  /\ fetched = [r \in Requests |-> <<>>]
  /\ unlinkFailed = {}
  /\ log = [r \in Requests |-> <<>>]

\* cleanup(tempFiles)
CleanupCalled(r) ==
  /\ Len(log[r]) < MaxCalls
  /\ \E failing \in SUBSET (Range(tempFiles[r]) \cap fs) :
       /\ fs' = cleanup(tempFiles[r], fs, failing)
       /\ unlinkFailed' = unlinkFailed \cup failing
  /\ log' = [log EXCEPT ![r] = Append(@, [e |-> "cleanup", deleted |-> fs \ fs'])]
  /\ UNCHANGED <<pc, body, validatedStems, i, filepath, inputFiles, tempFiles,
                 args, res, fetched>>

NextCleanup == CleanupCalled(1)

SpecCleanup == InitCleanup /\ [][NextCleanup]_vars

(***************************************************************************)
(* Vocabulary of the properties                                            *)
(***************************************************************************)
\* The handling of request r has ended: no listener, timer or continuation
\* of it is left to run
Ended(r) == pc[r] \in {"rejected", "failed", "cleaned", "streamError", "unpiped"}

\* The entries of the log of request r that record the event named e
Events(r, e) == {log[r][k] : k \in {h \in 1..Len(log[r]) : log[r][h].e = e}}

\* The positions of the log of request r that record the event named e
Positions(r, e) == {k \in 1..Len(log[r]) : log[r][k].e = e}

\* The scratch files of request r that exist
ScratchFiles(r) == {f \in fs : f.rid = requestId(r)}

\* The handler has answered request r with this status
Responded(r, code) == res[r].ended /\ res[r].status = code

\* The items of an optional array
Items(v) == IF v.t = "array" THEN v.items ELSE <<>>

\* The 500 of request r reports a failed download (status or network)
DownloadFailed(r) ==
  /\ pc[r] = "failed"
  /\ res[r].body.details \in {"Failed to download", "fetch failed", "body failed"}

(***************************************************************************)
(* C1: for a valid request with N stems and M <= N numeric volumes, the    *)
(* gain ffmpeg applies to source i is volumes[i] for i < M and 1.0 for     *)
(* M <= i < N, whatever the number (0 included).                           *)
(***************************************************************************)
GainIsVolumeOrUnity ==
  \A r \in Requests :
    (pc[r] \in {"mix", "stream"} /\ Len(Items(body[r].volumes)) <= Len(inputFiles[r]))
      => \A k \in 0..(Len(inputFiles[r]) - 1) :
           args[r].volume[k + 1] =
             IF k < Len(Items(body[r].volumes))
             THEN Items(body[r].volumes)[k + 1]
             ELSE Num(DefaultVolume)

(***************************************************************************)
(* C2: a request whose stems are missing, not an array, empty, or hold an  *)
(* element that is neither a string nor an object with a url string is     *)
(* answered 400, and neither then nor later has it fetched anything or     *)
(* created a scratch file.                                                 *)
(***************************************************************************)
StringOrUrlObject(e) ==
  e.t = "string" \/ (e.t = "object" /\ e.url.t = "string")

MalformedStems(b) ==
  \/ b.stems.t # "array"
  \/ b.stems.items = <<>>
  \/ \E k \in 1..Len(b.stems.items) : ~StringOrUrlObject(b.stems.items[k])

MalformedStemsRejectedBeforeAnyFetch ==
  \A r \in Requests :
    (pc[r] # "idle" /\ MalformedStems(body[r]))
      => /\ Responded(r, 400)
         /\ fetched[r] = <<>>
         /\ tempFiles[r] = <<>>
         /\ ScratchFiles(r) = {}

\* A list whose first element is a good URL and whose second is a number
MalformedAfterValidStemReached ==
  \E r \in Requests :
    /\ pc[r] = "rejected"
    /\ body[r].stems.t = "array"
    /\ Len(body[r].stems.items) = 2
    /\ body[r].stems.items[1] = Str(UrlA)
    /\ body[r].stems.items[2] = Num(5)

(***************************************************************************)
(* C3: every 400 and every 500 that the handler sends carries the          *)
(* requestId of the request in its JSON body.                              *)
(***************************************************************************)
FailuresCarryRequestId ==
  \A r \in Requests :
    (res[r].ended /\ res[r].status \in {400, 500})
      => /\ "requestId" \in DOMAIN res[r].body
         /\ res[r].body.requestId = requestId(r)

(***************************************************************************)
(* C4: when the download of a stem fails, the request is answered 500 and  *)
(* the files downloaded for its other stems are gone when the response is  *)
(* sent.                                                                   *)
(***************************************************************************)
DownloadFailureRemovesOtherStems ==
  \A r \in Requests :
    DownloadFailed(r)
      => /\ Responded(r, 500)
         /\ \A f \in Range(inputFiles[r]) : f \notin fs

\* C4 as amended: the files downloaded for the other stems are gone, except
\* those whose unlinkSync threw (cleanup logs the error and goes on).
DownloadFailureRemovesOtherStemsUnlessUnlinkFails ==
  \A r \in Requests :
    DownloadFailed(r)
      => /\ Responded(r, 500)
         /\ \A f \in Range(inputFiles[r]) : f \notin fs \/ f \in unlinkFailed

\* The second download failed after the first file had been written, and the
\* first file was deleted
OtherStemRemovedAfterDownloadFailure ==
  \E r \in Requests :
    /\ DownloadFailed(r)
    /\ i[r] = 1
    /\ Len(inputFiles[r]) = 1
    /\ inputFiles[r][1] \notin fs
    /\ unlinkFailed = {}

(***************************************************************************)
(* C5: however the handling of a request ends (success, download failure,  *)
(* encode failure, stream failure), every scratch file it created is       *)
(* deleted in the end, provided no delete fails.                           *)
(***************************************************************************)
\* The 500 of request r reports a failure of the ffmpeg run
EncodeFailed(r) ==
  /\ pc[r] = "failed"
  /\ res[r].body.details \in {"Mixed audio file was not created", "spawn failed",
                              "ffmpeg process exited with code"}

EndedRequestLeavesNoScratchFile ==
  \A r \in Requests :
    /\ unlinkFailed = {}
    /\ \/ pc[r] \in {"cleaned", "streamError", "unpiped"}
       \/ DownloadFailed(r)
       \/ EncodeFailed(r)
    => ScratchFiles(r) = {}

(***************************************************************************)
(* C6: when the client closes the connection while the output is streamed, *)
(* the handler treats it as a stream failure and the scratch files of the  *)
(* request are deleted in the end.                                         *)
(***************************************************************************)
ClientCloseLeadsToCleanup ==
  \A r \in Requests :
    (Ended(r) /\ res[r].closed /\ unlinkFailed = {})
      => \A f \in Range(tempFiles[r]) : f \notin fs

(***************************************************************************)
(* C7: every request ends with a finished response (400, 500 or a complete *)
(* 200); a read error of the output stream ends the response as a failure  *)
(* instead of leaving it open.                                             *)
(***************************************************************************)
EndedRequestHasFinishedResponse ==
  \A r \in Requests :
    (Ended(r) /\ ~res[r].closed)
      => /\ res[r].ended
         /\ res[r].status \in {200, 400, 500}
         /\ pc[r] = "streamError" => res[r].status = 500

(***************************************************************************)
(* C8: the extension of a scratch file name is the text after the last '.' *)
(* of the last path segment of the URL without its query string, and 'wav' *)
(* when that segment has no '.'.                                           *)
(***************************************************************************)
\* The last path segment of a URL without its query string
LastSegment(url) == Pop(Split(Split(url, "?")[1], "/"))

ExtensionComesFromLastSegment ==
  \A r \in Requests :
    pc[r] \in {"fetch", "buffer"}
      => LET parts == Split(LastSegment(validatedStems[r][i[r] + 1]), ".")
         IN /\ Len(parts) = 1 => filepath[r].ext = DefaultExtension
            /\ (Len(parts) > 1 /\ Pop(parts) # <<>>) => filepath[r].ext = Pop(parts)

(***************************************************************************)
(* C9: the extension of a scratch file name is never empty: it is 'wav'    *)
(* when the URL has no '.', and when nothing is left after the last '.'    *)
(* once the query string is stripped.                                      *)
(***************************************************************************)
ExtensionNeverEmpty ==
  \A r \in Requests :
    pc[r] \in {"fetch", "buffer"}
      => LET url == validatedStems[r][i[r] + 1]
             parts == Split(url, ".")
         IN /\ filepath[r].ext # <<>>
            /\ (Len(parts) = 1 \/ Split(Pop(parts), "?")[1] = <<>>)
                 => filepath[r].ext = DefaultExtension

(***************************************************************************)
(* C10: validation accepts an element iff it is a string, or an object     *)
(* whose url is a string, that is non-empty after trimming; an accepted    *)
(* list yields its trimmed URLs in order; the first rejected element gives *)
(* a 400 that reports its index and the received value, and nothing after  *)
(* it is processed.                                                        *)
(***************************************************************************)
UrlText(e) == IF e.t = "string" THEN e.s ELSE e.url.s

Blank(s) == \A k \in 1..Len(s) : s[k] \in Whitespace

\* s without the blanks at its two ends
Trimmed(s) ==
  IF Blank(s)
  THEN <<>>
  ELSE LET first == CHOOSE k \in 1..Len(s) :
                      s[k] \notin Whitespace /\ \A h \in 1..(k - 1) : s[h] \in Whitespace
           last == CHOOSE k \in 1..Len(s) :
                      s[k] \notin Whitespace /\ \A h \in (k + 1)..Len(s) : s[h] \in Whitespace
       IN SubSeq(s, first, last)

Acceptable(e) == StringOrUrlObject(e) /\ ~Blank(UrlText(e))

ValidationAcceptsExactlyTrimmedUrls ==
  \A r \in Requests :
    (pc[r] # "idle" /\ body[r].stems.t = "array" /\ body[r].stems.items # <<>>)
      => LET stems == body[r].stems.items
             bad == {k \in 1..Len(stems) : ~Acceptable(stems[k])}
         IN IF bad = {}
            THEN /\ pc[r] # "rejected"
                 /\ validatedStems[r] = [k \in 1..Len(stems) |-> Trimmed(UrlText(stems[k]))]
            ELSE LET k == CHOOSE j \in bad : \A h \in bad : j <= h
                 IN /\ Responded(r, 400)
                    /\ res[r].body.index = k - 1
                    /\ \/ res[r].body.received = stems[k]
                       \/ stems[k].t = "object" /\ res[r].body.received = stems[k].url
                    /\ fetched[r] = <<>>

\* A list of a string and an object whose url has blanks at both ends
TrimmedObjectUrlAccepted ==
  \E r \in Requests :
    /\ pc[r] = "fetch"
    /\ body[r].stems.t = "array"
    /\ body[r].stems.items = <<Str(UrlA), Obj(Str(UrlB))>>
    /\ validatedStems[r] = <<UrlA, <<"b", ".", "m">>>>

(***************************************************************************)
(* C11: a success response (audio/mpeg, attachment mixed_<requestId>.mp3,  *)
(* body streamed from the output file) is begun only when every stem was   *)
(* downloaded, ffmpeg exited with 0 and the output file exists; a non-zero *)
(* exit, a spawn error or a missing output file gives a 500 instead.       *)
(***************************************************************************)
SuccessOnlyAfterCleanMix ==
  \A r \in Requests :
    /\ Events(r, "pipe") # {}
         => /\ {w.i : w \in Events(r, "write")} = 0..(Len(validatedStems[r]) - 1)
            /\ Events(r, "exit") = {[e |-> "exit", exit |-> 0, file |-> TRUE]}
            /\ res[r].status = 200
            /\ res[r].contentType = "audio/mpeg"
            /\ res[r].disposition =
                 [attachment |-> TRUE, filename |-> [mixed |-> requestId(r)]]
            /\ res[r].body = [stream |-> OutputPath(requestId(r))]
    /\ \A x \in Events(r, "exit") :
         (x.exit # 0 \/ ~x.file)
           => /\ Events(r, "pipe") = {}
              /\ Responded(r, 500)

\* ffmpeg exited with 0 and left no output file: the request got its 500
MissingOutputAnswered500 ==
  \E r \in Requests :
    /\ [e |-> "exit", exit |-> 0, file |-> FALSE] \in Events(r, "exit")
    /\ Len(validatedStems[r]) = 2
    /\ Responded(r, 500)

(***************************************************************************)
(* C12: under any interleaving of concurrent requests, also for the same   *)
(* URLs, every path a request writes or registers for cleanup carries its  *)
(* own requestId, no path is written by two requests, and a cleanup only   *)
(* deletes files of the request that runs it.                              *)
(***************************************************************************)
\* The paths request r has computed, written or registered so far
PathsOf(r) ==
  Range(tempFiles[r])
    \cup {w.path : w \in Events(r, "write")}
    \cup {g.path : g \in Events(r, "register")}
    \cup (IF Events(r, "fetch") # {} THEN {filepath[r]} ELSE {})

ScratchPathsArePrivate ==
  /\ [](\A r \in Requests :
          /\ \A p \in PathsOf(r) : p.rid = requestId(r)
          /\ \A q \in Requests \ {r} : PathsOf(r) \cap PathsOf(q) = {})
  /\ [][/\ \A f \in fs \ fs' :
             \E r \in Requests : log'[r] # log[r] /\ f \in PathsOf(r)
        /\ \A f \in fs' \ fs :
             \E r \in Requests :
               /\ log'[r] # log[r]
               /\ f.rid = requestId(r)
               /\ \A q \in Requests \ {r} : f \notin PathsOf(q)]_vars

\* One request has cleaned up its files while the other's file for the same
\* URL is still on disk
CleanupBesideLiveRequest ==
  \E r, q \in Requests :
    /\ r # q
    /\ body[r] = body[q]
    /\ \E c \in Events(r, "cleanup") : c.deleted # {}
    /\ pc[q] = "mix"
    /\ ScratchFiles(q) # {}

(***************************************************************************)
(* C13: cleanup is idempotent: a second call on the same list of files     *)
(* raises nothing, deletes nothing further and leaves the directory as the *)
(* first call left it.                                                     *)
(***************************************************************************)
\* As stated: no call of cleanup after the first one deletes a file
LaterCleanupDeletesNothing ==
  \A k \in 2..Len(log[1]) : log[1][k].deleted = {}

\* As amended: a later call deletes only files whose unlinkSync threw in an
\* earlier call, and nothing at all when no unlinkSync ever threw
LaterCleanupDeletesOnlyEarlierFailures ==
  \A k \in 2..Len(log[1]) :
    /\ log[1][k].e = "cleanup"
    /\ log[1][k].deleted \subseteq unlinkFailed
    /\ log[1][k].deleted \cap log[1][1].deleted = {}
    /\ unlinkFailed = {} => log[1][k].deleted = {}

\* The first call deleted both listed files and the second call found nothing
SecondCleanupFoundNothing ==
  /\ Len(log[1]) = 2
  /\ Len(tempFiles[1]) = 2
  /\ log[1][1].deleted = Range(tempFiles[1])
  /\ Cardinality(log[1][1].deleted) = 2
  /\ log[1][2].deleted = {}

(***************************************************************************)
(* C14: within one request the stages are strictly sequential: at most one *)
(* download is in flight, download i+1 starts only after download i was    *)
(* written, ffmpeg is started once and only after all N downloads, and the *)
(* response is streamed only after ffmpeg has terminated.                  *)
(***************************************************************************)
StagesAreSequential ==
  \A r \in Requests :
    LET fetches == Positions(r, "fetch")
        writes == Positions(r, "write")
        spawns == Positions(r, "spawn")
        exits == Positions(r, "exit")
        N == Len(validatedStems[r])
    IN /\ \A p \in fetches :
            /\ log[r][p].i = Cardinality({q \in fetches : q < p})
            /\ \A q \in fetches :
                 q < p => \E w \in writes :
                            /\ q < w /\ w < p
                            /\ log[r][w].i = log[r][q].i
       /\ Cardinality({p \in fetches :
                         \A w \in writes \cup Positions(r, "throw") : w < p})
            = (IF pc[r] \in {"fetch", "buffer"} THEN 1 ELSE 0)
       /\ Cardinality(spawns) <= 1
       /\ \A s \in spawns :
            /\ {log[r][w].i : w \in {v \in writes : v < s}} = 0..(N - 1)
            /\ \A p \in fetches : p < s
       /\ Cardinality(exits) <= 1
       /\ \A x \in exits : \E s \in spawns : s < x
       /\ \A p \in Positions(r, "pipe") : \E x \in exits : x < p
       /\ pc[r] = "mix" <=> (spawns # {} /\ exits = {})

\* A request of two stems went through both downloads and ffmpeg and streams
TwoStemsMixedAndStreaming ==
  \E r \in Requests :
    /\ pc[r] = "stream"
    /\ Len(validatedStems[r]) = 2
    /\ Cardinality(Positions(r, "write")) = 2

(***************************************************************************)
(* C15: each stem is fetched at most once, without retry; once the         *)
(* download of stem k has failed, no stem of a higher index is fetched and *)
(* ffmpeg is never started.                                                *)
(***************************************************************************)
NoRetryAndNoWorkAfterFailedDownload ==
  \A r \in Requests :
    /\ Len(fetched[r]) <= Len(validatedStems[r])
    /\ \A k \in 1..Len(fetched[r]) : fetched[r][k] = validatedStems[r][k]
    /\ \A k \in 0..(Len(validatedStems[r]) - 1) :
         Cardinality({p \in Positions(r, "fetch") : log[r][p].i = k}) <= 1
    /\ \A t \in Positions(r, "throw") :
         /\ \A p \in Positions(r, "fetch") : p < t /\ log[r][p].i <= log[r][t].i
         /\ Positions(r, "spawn") = {}
         /\ args[r] = Undefined
         /\ Len(fetched[r]) = log[r][t].i + 1
         /\ pc[r] = "failed"

\* The first of two stems failed to download: the second was never fetched
FirstOfTwoDownloadsFailed ==
  \E r \in Requests :
    /\ DownloadFailed(r)
    /\ Len(validatedStems[r]) = 2
    /\ \E t \in Events(r, "throw") : t.i = 0
    /\ Len(fetched[r]) = 1

(***************************************************************************)
(* C16: the output path is registered for cleanup before ffmpeg is         *)
(* started, so when mixing fails the request is answered with 500 and all  *)
(* N input files and any partial output file have been deleted.            *)
(***************************************************************************)
\* As stated: after a failed mix none of the request's files is left
EncodeFailureLeavesNothing ==
  \A r \in Requests :
    EncodeFailed(r)
      => /\ Responded(r, 500)
         /\ Range(inputFiles[r]) \cap fs = {}
         /\ OutputPath(requestId(r)) \notin fs

\* As amended: the only files left are those whose unlinkSync threw
EncodeFailureLeavesOnlyUndeletable ==
  \A r \in Requests :
    /\ \A s \in Positions(r, "spawn") :
         /\ \E g \in Positions(r, "register") :
              g < s /\ log[r][g].path = OutputPath(requestId(r))
         /\ tempFiles[r] = Append(inputFiles[r], OutputPath(requestId(r)))
    /\ EncodeFailed(r)
         => /\ Responded(r, 500)
            /\ Len(inputFiles[r]) = Len(validatedStems[r])
            /\ (Range(inputFiles[r]) \cup {OutputPath(requestId(r))}) \cap fs
                 \subseteq unlinkFailed
            /\ \E c \in Positions(r, "cleanup") :
                 \A x \in Positions(r, "respond") : c < x

\* ffmpeg exited with 1 and left a partial output file: both inputs and the
\* partial output are gone
PartialOutputRemovedAfterEncodeFailure ==
  \E r \in Requests :
    /\ EncodeFailed(r)
    /\ [e |-> "exit", exit |-> 1, file |-> TRUE] \in Events(r, "exit")
    /\ Len(inputFiles[r]) = 2
    /\ \E c \in Events(r, "cleanup") :
         c.deleted = Range(inputFiles[r]) \cup {OutputPath(requestId(r))}
    /\ ScratchFiles(r) = {}

(***************************************************************************)
(* C17: a file that cannot be deleted never keeps cleanup from trying the  *)
(* remaining files, the failure never leaves cleanup, and it never changes *)
(* the status or the body of the response.                                 *)
(***************************************************************************)
\* What the catch block reports: the message of the error that was thrown
ThrownMessages ==
  {"Failed to download", "fetch failed", "body failed", "write failed",
   "Mixed audio file was not created", "spawn failed",
   "ffmpeg process exited with code"}

UnlinkFailureStaysInsideCleanup ==
  \A r \in Requests :
    /\ \A c \in Positions(r, "cleanup") :
         /\ \A f \in Range(tempFiles[r]) : f \notin fs \/ f \in unlinkFailed
         /\ log[r][c].deleted \cap unlinkFailed = {}
    /\ pc[r] = "failed"
         => /\ log[r][Len(log[r])] = [e |-> "respond", status |-> 500]
            /\ log[r][Len(log[r]) - 1].e = "cleanup"
            /\ res[r].status = 500
            /\ res[r].contentType = "application/json"
            /\ res[r].body.error = "Failed to mix audio files"
            /\ res[r].body.details \in ThrownMessages
            /\ res[r].body.requestId = requestId(r)
    /\ pc[r] = "cleaned"
         => /\ res[r].status = 200
            /\ res[r].body = [stream |-> OutputPath(requestId(r))]
            /\ res[r].ended

\* The first registered file could not be deleted, the second one was
\* deleted all the same, and the 500 is the one of the failed mix
SecondFileDeletedAfterFirstFailed ==
  \E r \in Requests :
    /\ pc[r] = "failed"
    /\ Len(tempFiles[r]) >= 2
    /\ tempFiles[r][1] \in unlinkFailed \cap fs
    /\ \E c \in Events(r, "cleanup") : tempFiles[r][2] \in c.deleted
    /\ res[r].body.details = "ffmpeg process exited with code"

(***************************************************************************)
(* C18: every way out of the handler (validation reject, download failure, *)
(* encode failure, stream failure, success) passes through cleanup, and on *)
(* every failure path cleanup has run before the failure response is       *)
(* finalized.                                                              *)
(***************************************************************************)
EveryExitPassesThroughCleanup ==
  \A r \in Requests :
    /\ Ended(r) => Positions(r, "cleanup") # {}
    /\ \A x \in Positions(r, "respond") :
         log[r][x].status >= 400
           => \E c \in Positions(r, "cleanup") : c < x

(***************************************************************************)
(* C19: when ffmpeg is invoked, its input list has one entry per validated *)
(* stem, input i is the file downloaded from validated stem i, and source  *)
(* i of the filter graph carries volumes[i]: nothing is reordered, dropped *)
(* or duplicated.                                                          *)
(***************************************************************************)
MixInputsFollowStemsAndVolumes ==
  \A r \in Requests :
    args[r] # Undefined
      => /\ Len(args[r].inputs) = Len(validatedStems[r])
         /\ \A k \in 1..Len(validatedStems[r]) :
              /\ \E w \in Events(r, "write") :
                   /\ w.i = k - 1
                   /\ w.url = validatedStems[r][k]
                   /\ w.path = args[r].inputs[k]
              /\ \A h \in 1..Len(validatedStems[r]) :
                   h # k => args[r].inputs[h] # args[r].inputs[k]
              /\ k <= Len(Items(body[r].volumes))
                   => args[r].volume[k] = Items(body[r].volumes)[k]

(***************************************************************************)
(* C20: on the success path no scratch file of the request, the mixed      *)
(* output file in particular, is deleted before the response stream has    *)
(* fully drained, that is before every byte of the output file has been    *)
(* delivered to the caller.                                                *)
(***************************************************************************)
\* A step of the success path of request r that deletes one of its files
SuccessPathDeletion(r) ==
  /\ Positions(r, "pipe") # {}
  /\ Positions(r, "error") = {}
  /\ pc'[r] # "streamError"
  /\ (fs \ fs') \cap Range(tempFiles[r]) # {}

ResponsesBegun(r) == Positions(r, "respond") \cup Positions(r, "pipe")

AtMostOneResponse ==
  /\ [](\A r \in Requests :
          /\ Cardinality(ResponsesBegun(r)) <= 1
          /\ \A x \in Positions(r, "respond") :
               /\ res[r].status = log[r][x].status
               /\ res[r].contentType = "application/json"
          /\ Positions(r, "pipe") # {}
               => /\ res[r].status = 200
                  /\ res[r].contentType = "audio/mpeg")
  /\ [][\A r \in Requests :
          ResponsesBegun(r) # {}
            => /\ res'[r].status = res[r].status
               /\ res'[r].contentType = res[r].contentType
               /\ res'[r].body = res[r].body]_vars

\* The stream failed after the success headers were set: no 500 was sent
StreamFailedWithoutSecondResponse ==
  \E r \in Requests :
    /\ pc[r] = "streamError"
    /\ Positions(r, "pipe") # {}
    /\ Positions(r, "respond") = {}
    /\ res[r].status = 200

(***************************************************************************)
(* C22: wherever cleanup can be triggered for a request, every scratch     *)
(* file the request has created on disk is in its registry tempFiles; a    *)
(* stem file that downloadFile created or wrote in part is registered even *)
(* when the write itself fails.                                            *)
(***************************************************************************)
EveryCreatedFileIsRegistered ==
  \A r \in Requests :
    /\ ScratchFiles(r) \subseteq Range(tempFiles[r])
    /\ \A c \in Events(r, "cleanup") : c.deleted \subseteq Range(tempFiles[r])
    /\ \A t \in Events(r, "throw") :
         filepath[r] \in fs => filepath[r] \in Range(tempFiles[r])

====
